---- MODULE Spec2Model ----
(***************************************************************************)
(* BlueStar workflow: the AgentState record, the node functions of         *)
(* bluestar/agents/nodes and the edges of bluestar/agents/graph.py.        *)
(*                                                                         *)
(* The graph topology (node names, fixed edges, the two conditional edges) *)
(* is create_workflow().  create_workflow() registers input_validator_node *)
(* and commit_fetcher_node and, for the five later nodes, placeholder_*    *)
(* functions marked "to be replaced"; here each node name is bound to the  *)
(* node function that bluestar.agents.nodes exports for that stage         *)
(* (commit_analyzer_node, content_synthesizer_node, human_refinement_node, *)
(* publishing_decision_node).  The edge out of publishing_decision never   *)
(* selects blog_publisher in a run (publish_to_blog is set by no node), so *)
(* no sink node takes a step under Spec.  SinkSpec adds the sink node      *)
(* functions (publish_to_ghost_node, publish_to_notion_node,               *)
(* save_local_draft_node), each called on the state a run ended with when  *)
(* the recorded publishing decision names it, its returned partial update  *)
(* written into the state.  ClientSpec runs the validator and then the     *)
(* fetcher with the GitHub client's _make_request spelled out request by   *)
(* request; ClassifierSpec applies the three get_user_message classifiers  *)
(* to failures of every type and marker combination.                       *)
(*                                                                         *)
(* A node runs to its return in one step, except where it blocks in        *)
(* input(): every input() call is a step of its own that consumes one      *)
(* console entry.  After a node returns, the runtime evaluates the node's  *)
(* outgoing edge on the returned state; that evaluation is part of the     *)
(* same step.                                                              *)
(***************************************************************************)
EXTENDS Integers, Sequences, FiniteSets, TLC

VARIABLES
    state,          \* the AgentState threaded through the nodes
    pc,             \* graph node to execute next, or END
    prompt,         \* input() call the running node is blocked in, or "none"
    now,            \* datetime.now(), a logical clock
    last_node,      \* node that returned most recently ("none" before the first)
    last_entry,     \* console entry consumed by the most recent input() call
    synth_runs,     \* executions of content_synthesizer_node so far
    human_runs,     \* executions of human_refinement_node that have returned
    menu_inputs,    \* input() calls made by publishing_decision_node
    invalid_entries, \* invalid console entries typed so far in the run
    last_call,      \* what the collaborator (GitHub client, LLM chain) did in
                    \* the latest fetch, analysis or synthesis execution
    published,      \* sinks that have written the document out, in order
    http_log,       \* session.get calls and sleeps of the latest
                    \* GitHubClient._make_request, in order
    llm_calls,      \* chain.invoke calls made so far in the run
    last_prompt     \* prompt template of the latest synthesis model call

vars == <<state, pc, prompt, now, last_node, last_entry, synth_runs,
          human_runs, menu_inputs, invalid_entries, last_call, published,
          http_log, llm_calls, last_prompt>>

\* ------------------------------------------------------------------ bounds
MaxInvalid == 2

\* ------------------------------------------------------------- Python data
\* Optional[T]: None is the empty tuple, a value x is the one-element tuple.
None == <<>>
Some(x) == <<x>>
\* Python truthiness of an optional object, boolean and string.
TruthyObj(opt) == opt # None
TruthyBool(opt) == opt = Some(TRUE)
TruthyStr(opt) == opt # None /\ opt[1] # <<>>

END == "__end__"

\* Console entries are sequences of one-character strings.
LowerChar(c) ==
    CASE c = "Y" -> "y"
      [] c = "E" -> "e"
      [] c = "S" -> "s"
      [] c = "N" -> "n"
      [] c = "O" -> "o"
      [] OTHER -> c

Lower(s) == [i \in 1..Len(s) |-> LowerChar(s[i])]

RECURSIVE LStrip(_)
LStrip(s) == IF s # <<>> /\ Head(s) = " " THEN LStrip(Tail(s)) ELSE s

RECURSIVE RStrip(_)
RStrip(s) ==
    IF s # <<>> /\ s[Len(s)] = " " THEN RStrip(SubSeq(s, 1, Len(s) - 1)) ELSE s

Strip(s) == RStrip(LStrip(s))

\* Entries a reviewer may type at the satisfaction prompt.
SatisfiedEntries ==
    { <<"y">>, <<"Y", "e", "s">>, <<" ", "n">>, <<"N", "O", " ">>,
      <<"m">>, <<>> }

\* Entries a reviewer may type at the feedback prompt.
FeedbackEntries == { <<"f", "b">>, <<" ", "f", " ">>, <<" ">>, <<>> }

\* Entries a user may type at the publishing menu.
MenuEntries ==
    { <<"1">>, <<" ", "2">>, <<"3", " ">>, <<"4">>, <<"5">>, <<"i", "n", "v">>,
      <<>> }

\* ------------------------------------------------------------- identities
\* A commit SHA is described by what the validator looks at: its length
\* after strip(), its character class and whether whitespace surrounds it.
Sha(len, chars, padded) == [len |-> len, chars |-> chars, padded |-> padded]

\* A repository identifier is a sequence of tokens.
\* The identity fields a run may be started with: <<repository, commit SHA,
\* instructions>>, covering valid and invalid values of each of the first two.
IdentityInputs ==
    { << <<"owner", "/", "repo">>, Sha(40, "lowerhex", FALSE), None >>,
      << <<"https://github.com/", "owner", "/", "repo", ".git">>,
         Sha(40, "upperhex", TRUE), Some("instructions") >>,
      << <<"owner", "/", "repo">>, Sha(7, "lowerhex", FALSE),
         Some("instructions") >>,
      << <<"github.com/", "owner", "/", "repo">>, Sha(40, "nonhex", FALSE),
         None >>,
      << <<"owner">>, Sha(40, "lowerhex", FALSE), None >>,
      << <<>>, Sha(0, "lowerhex", TRUE), None >> }

PublishingTokens == {"ghost", "notion", "local", "discard"}

DefaultMaxIterations == 3

\* AgentState(...) as constructed by collect_user_input(): identity fields,
\* the preselected publishing decision, every other field at its default.
\* The dataclass in agents/state.py declares no publishing_decision field;
\* collect_user_input() and evals/run_eval.py pass it to the constructor and
\* publishing_decision_node reads and assigns it, so it is an optional field
\* that is None unless preselected.
AgentState(repo, sha, instructions, preselect) ==
    [ repo_identifier           |-> repo,
      commit_sha                |-> sha,
      user_instructions         |-> instructions,
      commit_data               |-> None,
      commit_analysis           |-> None,
      blog_post                 |-> None,
      max_iterations            |-> DefaultMaxIterations,
      synthesis_iteration_count |-> 0,
      user_satisfied            |-> None,
      user_feedback             |-> None,
      current_step              |-> <<"input_validation">>,
      processing_complete       |-> FALSE,
      errors                    |-> <<>>,
      publish_to_blog           |-> None,
      publishing_decision       |-> preselect,
      step_timestamps           |-> <<>> ]

\* ------------------------------------------------------ AgentState methods
add_error(s, error_message) ==
    [s EXCEPT !.errors = Append(@, error_message)]

\* The label assigned without the timestamp entry of line 101.
mark_step_complete_LabelOnly(s, step_name, t) ==
    [s EXCEPT !.current_step = step_name]

mark_step_complete(s, step_name, t) ==
    [s EXCEPT !.step_timestamps = (step_name :> t) @@ @,
              !.current_step = step_name]

StartsWithContentSynthesis(step) == step[1] = "content_synthesis"

get_current_iteration_count(s) ==
    Cardinality({step \in DOMAIN s.step_timestamps :
                    StartsWithContentSynthesis(step)})

\* can_iterate with an off-by-one comparison.
can_iterate_AtMost(s) == get_current_iteration_count(s) <= s.max_iterations

can_iterate(s) == get_current_iteration_count(s) < s.max_iterations

\* ------------------------------------------------------------ graph edges
should_continue_iteration(s) ==
    IF s.user_satisfied = Some(TRUE) THEN "publishing_decision"
    ELSE IF s.user_satisfied = Some(FALSE) /\ can_iterate(s)
         THEN "content_synthesizer"
    ELSE "publishing_decision"

\* The decision edge routing on the recorded choice instead of the flag.
should_publish_blog_OnDecision(s) ==
    IF s.publishing_decision \in { Some("ghost"), Some("notion"), Some("local") }
    THEN "blog_publisher" ELSE END

should_publish_blog(s) ==
    IF s.publish_to_blog = Some(TRUE) THEN "blog_publisher" ELSE END

\* -------------------------------------------------------------- exceptions
\* An exception is its class and the markers its message text contains.
Exc(type, text) == [type |-> type, text |-> text]

LLMExceptions ==
    { Exc("ConfigurationError", {}),
      Exc("LLMError", {"rate limit"}),
      Exc("LLMError", {"timeout"}),
      Exc("LLMError", {"rate limit", "timeout"}),
      Exc("LLMError", {}),
      Exc("ValidationError", {}),
      Exc("Exception", {}) }

FetchExceptions ==
    { Exc("ConfigurationError", {"GitHub token"}),
      Exc("ConfigurationError", {}),
      Exc("RepositoryError", {}),
      Exc("LLMError", {"rate limit"}),
      Exc("LLMError", {"timed out"}),
      Exc("LLMError", {"forbidden"}),
      Exc("LLMError", {}),
      Exc("InvalidCommitError", {}),
      Exc("Exception", {}) }

\* The identifier put into the message whole.
ShaPrefix8_Untruncated(sha) == sha

\* commit_sha[:8]
ShaPrefix8(sha) == [sha EXCEPT !.len = IF @ < 8 THEN @ ELSE 8]

\* A diagnostic is the tuple of the parts its text is formatted from.
CommitFetcherErrorHandler_get_user_message(exception, repo, commit_sha) ==
    CASE exception.type = "ConfigurationError" ->
            IF "GitHub token" \in exception.text
            THEN <<"CommitFetcher", "github_token">>
            ELSE <<"CommitFetcher", "configuration", exception.text>>
      [] exception.type = "RepositoryError" ->
            <<"CommitFetcher", "not_found", repo, ShaPrefix8(commit_sha)>>
      [] exception.type = "LLMError" ->
            IF "rate limit" \in exception.text
            THEN <<"CommitFetcher", "rate_limit">>
            ELSE IF "timed out" \in exception.text
            THEN <<"CommitFetcher", "timeout">>
            ELSE IF "forbidden" \in exception.text
            THEN <<"CommitFetcher", "forbidden">>
            ELSE <<"CommitFetcher", "request_failed">>
      [] exception.type = "InvalidCommitError" ->
            <<"CommitFetcher", "invalid_commit", repo>>
      [] OTHER -> <<"CommitFetcher", "unexpected", exception.text>>

\* The analyzer's classifier testing for a timeout before a rate limit.
CommitAnalyzerErrorHandler_TimeoutFirst(exception, repo, commit_sha) ==
    LET commit_short == ShaPrefix8(commit_sha) IN
    CASE exception.type = "ConfigurationError" ->
            <<"CommitAnalyzer", "configuration", commit_short>>
      [] exception.type = "LLMError" ->
            IF "timeout" \in exception.text
            THEN <<"CommitAnalyzer", "timeout", commit_short>>
            ELSE IF "rate limit" \in exception.text
            THEN <<"CommitAnalyzer", "rate_limit", commit_short>>
            ELSE <<"CommitAnalyzer", "api_error", commit_short>>
      [] exception.type = "ValidationError" ->
            <<"CommitAnalyzer", "invalid_format", commit_short>>
      [] OTHER -> <<"CommitAnalyzer", "unexpected", commit_short>>

CommitAnalyzerErrorHandler_get_user_message(exception, repo, commit_sha) ==
    LET commit_short == ShaPrefix8(commit_sha) IN
    CASE exception.type = "ConfigurationError" ->
            <<"CommitAnalyzer", "configuration", commit_short>>
      [] exception.type = "LLMError" ->
            IF "rate limit" \in exception.text
            THEN <<"CommitAnalyzer", "rate_limit", commit_short>>
            ELSE IF "timeout" \in exception.text
            THEN <<"CommitAnalyzer", "timeout", commit_short>>
            ELSE <<"CommitAnalyzer", "api_error", commit_short>>
      [] exception.type = "ValidationError" ->
            <<"CommitAnalyzer", "invalid_format", commit_short>>
      [] OTHER -> <<"CommitAnalyzer", "unexpected", commit_short>>

\* The synthesizer's classifier testing for a timeout before a rate limit.
ContentSynthesizerErrorHandler_TimeoutFirst(exception, repo, commit_sha) ==
    LET commit_short == ShaPrefix8(commit_sha) IN
    CASE exception.type = "ConfigurationError" ->
            <<"ContentSynthesizer", "configuration", commit_short>>
      [] exception.type = "LLMError" ->
            IF "timeout" \in exception.text
            THEN <<"ContentSynthesizer", "timeout", commit_short>>
            ELSE IF "rate limit" \in exception.text
            THEN <<"ContentSynthesizer", "rate_limit", commit_short>>
            ELSE <<"ContentSynthesizer", "api_error", commit_short>>
      [] exception.type = "ValidationError" ->
            <<"ContentSynthesizer", "invalid_format", commit_short>>
      [] OTHER -> <<"ContentSynthesizer", "unexpected", commit_short>>

ContentSynthesizerErrorHandler_get_user_message(exception, repo, commit_sha) ==
    LET commit_short == ShaPrefix8(commit_sha) IN
    CASE exception.type = "ConfigurationError" ->
            <<"ContentSynthesizer", "configuration", commit_short>>
      [] exception.type = "LLMError" ->
            IF "rate limit" \in exception.text
            THEN <<"ContentSynthesizer", "rate_limit", commit_short>>
            ELSE IF "timeout" \in exception.text
            THEN <<"ContentSynthesizer", "timeout", commit_short>>
            ELSE <<"ContentSynthesizer", "api_error", commit_short>>
      [] exception.type = "ValidationError" ->
            <<"ContentSynthesizer", "invalid_format", commit_short>>
      [] OTHER -> <<"ContentSynthesizer", "unexpected", commit_short>>

\* --------------------------------------------------------- input validator
RemoveAll(s, tok) == SelectSeq(s, LAMBDA x : x # tok)

RECURSIVE LStripTok(_, _)
LStripTok(s, tok) ==
    IF s # <<>> /\ Head(s) = tok THEN LStripTok(Tail(s), tok) ELSE s

RECURSIVE RStripTok(_, _)
RStripTok(s, tok) ==
    IF s # <<>> /\ s[Len(s)] = tok
    THEN RStripTok(SubSeq(s, 1, Len(s) - 1), tok) ELSE s

\* GitHubClient.parse_repo_identifier: ok is FALSE where it raises
\* RepositoryError, else parts is the identifier "owner/repo".
parse_repo_identifier(repo_identifier) ==
    LET a == IF repo_identifier # <<>> /\ Head(repo_identifier) = "https://github.com/"
             THEN RemoveAll(repo_identifier, "https://github.com/")
             ELSE IF repo_identifier # <<>> /\ Head(repo_identifier) = "github.com/"
             THEN RemoveAll(repo_identifier, "github.com/")
             ELSE repo_identifier
        b == IF a # <<>> /\ a[Len(a)] = ".git" THEN SubSeq(a, 1, Len(a) - 1) ELSE a
        c == RStripTok(LStripTok(b, "/"), "/")
        nparts == Len(SelectSeq(c, LAMBDA x : x = "/")) + 1
    IN  [ok |-> nparts = 2, parts |-> c]

validate_repository(repo_identifier) ==
    IF repo_identifier = <<>> \/ Strip(repo_identifier) = <<>>
    THEN [valid |-> FALSE, value |-> <<>>, error |-> "required"]
    ELSE LET r == parse_repo_identifier(repo_identifier) IN
         IF r.ok THEN [valid |-> TRUE, value |-> r.parts, error |-> "none"]
         ELSE [valid |-> FALSE, value |-> <<>>, error |-> "invalid_identifier"]

validate_commit_sha(commit_sha) ==
    IF commit_sha.len = 0
    THEN [valid |-> FALSE, value |-> commit_sha, error |-> "required"]
    ELSE IF commit_sha.len # 40
    THEN [valid |-> FALSE, value |-> commit_sha, error |-> "length"]
    ELSE IF commit_sha.chars = "nonhex"
    THEN [valid |-> FALSE, value |-> commit_sha, error |-> "characters"]
    ELSE [valid |-> TRUE,
          value |-> Sha(40, "lowerhex", FALSE),
          error |-> "none"]

\* The validator storing each validation result's value without testing
\* whether the field was valid.
input_validator_node_AssignsAlways(s, t) ==
    LET rv == validate_repository(s.repo_identifier)
        s1 == IF rv.valid THEN [s EXCEPT !.repo_identifier = rv.value]
              ELSE add_error([s EXCEPT !.repo_identifier = rv.value],
                             <<"InputValidator", "repository", rv.error>>)
        cv == validate_commit_sha(s1.commit_sha)
        s2 == IF cv.valid THEN [s1 EXCEPT !.commit_sha = cv.value]
              ELSE add_error(s1, <<"InputValidator", "commit_sha", cv.error>>)
    IN  IF rv.valid /\ cv.valid
        THEN mark_step_complete(s2, <<"input_validation">>, t)
        ELSE s2

\* The validator marking its step complete whatever the validation results.
input_validator_node_MarksAlways(s, t) ==
    LET rv == validate_repository(s.repo_identifier)
        s1 == IF rv.valid THEN [s EXCEPT !.repo_identifier = rv.value]
              ELSE add_error(s, <<"InputValidator", "repository", rv.error>>)
        cv == validate_commit_sha(s1.commit_sha)
        s2 == IF cv.valid THEN [s1 EXCEPT !.commit_sha = cv.value]
              ELSE add_error(s1, <<"InputValidator", "commit_sha", cv.error>>)
    IN  mark_step_complete(s2, <<"input_validation">>, t)

input_validator_node(s, t) ==
    LET rv == validate_repository(s.repo_identifier)
        s1 == IF rv.valid THEN [s EXCEPT !.repo_identifier = rv.value]
              ELSE add_error(s, <<"InputValidator", "repository", rv.error>>)
        cv == validate_commit_sha(s1.commit_sha)
        s2 == IF cv.valid THEN [s1 EXCEPT !.commit_sha = cv.value]
              ELSE add_error(s1, <<"InputValidator", "commit_sha", cv.error>>)
    IN  IF rv.valid /\ cv.valid
        THEN mark_step_complete(s2, <<"input_validation">>, t)
        ELSE s2

\* ------------------------------------------------------------ GitHub client
\* Retry(total=3, status_forcelist=[429, ...]) mounted on the session.
RetryTotal == 3

\* Most consecutive 429 answers the server gives to one request.
MaxRateLimited == 4

\* X-RateLimit-Reset of a 429 answer, as seconds from now.
ResetSeconds == { 0, 299, 300 }

\* What the server does with one request: it answers 429 `limited` times,
\* each time with the rate-limit headers remaining and reset, and then gives
\* its final answer: a response with a status outside status_forcelist, or
\* a network failure that session.get raises as Timeout or ConnectionError.
Servers ==
    [ limited : 0..MaxRateLimited,
      remaining : {0, 1},
      reset : ResetSeconds,
      final : {"200", "404", "403", "422", "Timeout", "ConnectionError"} ]

Response(status, server) ==
    [kind |-> "response", status |-> status,
     remaining |-> server.remaining, reset |-> server.reset]

GetEvent(r) == [ev |-> "get", answer |-> r]

\* session.get through the HTTPAdapter: a 429 answer is retried by the
\* adapter until RetryTotal retries are used up, then RetryError is raised
\* (raise_on_status); any other answer is handed to the caller.  log is the
\* HTTP requests sent, left the 429 answers the server still has in store.
session_get(server) ==
    IF server.limited > RetryTotal
    THEN [log |-> [i \in 1..(RetryTotal + 1) |->
                      GetEvent(Response("429", server))],
          answer |-> [kind |-> "RetryError"],
          left |-> server.limited - (RetryTotal + 1)]
    ELSE [log |-> [i \in 1..server.limited |->
                      GetEvent(Response("429", server))]
                  \o << GetEvent(IF server.final \in {"Timeout", "ConnectionError"}
                                 THEN [kind |-> server.final]
                                 ELSE Response(server.final, server)) >>,
          answer |-> IF server.final \in {"Timeout", "ConnectionError"}
                     THEN [kind |-> server.final]
                     ELSE Response(server.final, server),
          left |-> 0]

\* GitHubRateLimit.is_exhausted
is_exhausted(response) == response.remaining <= 0

\* _handle_rate_limit: "raise", "sleep" or "pass", and the wait in seconds.
handle_rate_limit(response) ==
    LET wait_time == response.reset + 1 IN
    IF is_exhausted(response)
    THEN IF wait_time > 300
         THEN [does |-> "raise", wait |-> wait_time]
         ELSE [does |-> "sleep", wait |-> wait_time]
    ELSE [does |-> "pass", wait |-> 0]

\* Lines 116-117 and 127-133: raise_for_status() on the last response.
RaiseForStatus(response) ==
    CASE response.status = "200" -> [kind |-> "ok"]
      [] response.status = "404" ->
            [kind |-> "raise", exc |-> Exc("RepositoryError", {})]
      [] response.status = "403" ->
            [kind |-> "raise", exc |-> Exc("ConfigurationError", {})]
      [] OTHER -> [kind |-> "raise", exc |-> Exc("LLMError", {})]

\* _make_request on a client that has made no request yet (the get_commit
\* call of the fetcher).  A RequestException other than Timeout raised by the
\* first session.get reaches line 128 with response unbound, which raises
\* UnboundLocalError.
GitHubClient_make_request(server) ==
    LET g1 == session_get(server)
        first == g1.answer
    IN  IF first.kind = "Timeout"
        THEN [log |-> g1.log,
              result |-> [kind |-> "raise",
                          exc |-> Exc("LLMError", {"timed out"})]]
        ELSE IF first.kind \in {"ConnectionError", "RetryError"}
        THEN [log |-> g1.log,
              result |-> [kind |-> "raise", exc |-> Exc("Exception", {})]]
        ELSE IF first.status = "429"
        THEN LET h == handle_rate_limit(first)
                 g2 == session_get([server EXCEPT !.limited = g1.left])
                 second == g2.answer
                 before == g1.log \o
                           (IF h.does = "sleep"
                            THEN <<[ev |-> "sleep", wait |-> h.wait]>>
                            ELSE <<>>)
             IN  IF h.does = "raise"
                 THEN [log |-> before,
                       result |-> [kind |-> "raise",
                                   exc |-> Exc("LLMError", {"rate limit"})]]
                 ELSE [log |-> before \o g2.log,
                       result |->
                         IF second.kind = "Timeout"
                         THEN [kind |-> "raise",
                               exc |-> Exc("LLMError", {"timed out"})]
                         ELSE IF second.kind \in {"ConnectionError", "RetryError"}
                         THEN [kind |-> "raise", exc |-> Exc("LLMError", {})]
                         ELSE RaiseForStatus(second)]
        ELSE [log |-> g1.log, result |-> RaiseForStatus(first)]

\* ----------------------------------------------------------- commit fetcher
\* The node returned before calling its collaborator.
NoCall == [kind |-> "none"]

\* outcome: what the GitHub collaborator does, [kind |-> "ok", context |-> b]
\* (b: the project-context bundle was fetched) or [kind |-> "raise", exc |-> e].
FetchOutcomes ==
    { [kind |-> "ok", context |-> b] : b \in BOOLEAN } \cup
    { [kind |-> "raise", exc |-> e] : e \in FetchExceptions }

\* CommitDataParser.parse_commit_data(commit_response, diff_content,
\* repo_identifier, core_context) as the fetcher calls it: the record carries
\* the context bundle as its project_structure, None (FALSE here) when the
\* fetcher passes core_context = None.
CommitDataParser_parse_commit_data(core_context) ==
    [project_structure |-> core_context]

\* The fetcher without the inner try around get_core_context: a failure of
\* the context fetch reaches the outer handlers.
commit_fetcher_node_ContextFailureFails(s, outcome, t) ==
    LET s1 == IF ~parse_repo_identifier(s.repo_identifier).ok
              THEN [s EXCEPT !.errors = Append(@,
                        CommitFetcherErrorHandler_get_user_message(
                            Exc("RepositoryError", {}),
                            s.repo_identifier, s.commit_sha))]
              ELSE IF outcome.kind = "raise"
              THEN [s EXCEPT !.errors = Append(@,
                        CommitFetcherErrorHandler_get_user_message(
                            outcome.exc, s.repo_identifier, s.commit_sha))]
              ELSE IF ~outcome.context
              THEN [s EXCEPT !.errors = Append(@,
                        CommitFetcherErrorHandler_get_user_message(
                            Exc("Exception", {}),
                            s.repo_identifier, s.commit_sha))]
              ELSE [s EXCEPT !.commit_data =
                        Some(CommitDataParser_parse_commit_data(
                                 outcome.context))]
    IN  mark_step_complete(s1, <<"commit_fetching">>, t)

commit_fetcher_node(s, outcome, t) ==
    LET s1 == IF ~parse_repo_identifier(s.repo_identifier).ok
              THEN [s EXCEPT !.errors = Append(@,
                        CommitFetcherErrorHandler_get_user_message(
                            Exc("RepositoryError", {}),
                            s.repo_identifier, s.commit_sha))]
              ELSE IF outcome.kind = "raise"
              THEN [s EXCEPT !.errors = Append(@,
                        CommitFetcherErrorHandler_get_user_message(
                            outcome.exc, s.repo_identifier, s.commit_sha))]
              ELSE [s EXCEPT !.commit_data =
                        Some(CommitDataParser_parse_commit_data(
                                 outcome.context))]
    IN  mark_step_complete(s1, <<"commit_fetching">>, t)

\* ---------------------------------------------------------- commit analyzer
\* outcome: what the chain prompt | llm | parser does.
LLMOutcomes ==
    { [kind |-> "ok"] } \cup { [kind |-> "raise", exc |-> e] : e \in LLMExceptions }

\* The invocation wrapped in a retry on malformed output.
chain_invoke_RetryOnValidation(outcomes) ==
    IF outcomes[1].kind = "raise" /\ outcomes[1].exc.type = "ValidationError"
    THEN [calls |-> 2, outcome |-> outcomes[2]]
    ELSE [calls |-> 1, outcome |-> outcomes[1]]

\* chain.invoke(...) as the analyzer (line 203) and the synthesizer (line 171)
\* call it: outcomes is what successive invocations of the chain would do;
\* the node makes one and takes what it gives.
chain_invoke(outcomes) == [calls |-> 1, outcome |-> outcomes[1]]

\* What a further invocation would do, were one made.
FurtherOutcomes ==
    { [kind |-> "ok"],
      [kind |-> "raise", exc |-> Exc("ValidationError", {})] }

\* The analyzer returning from its except clauses without marking the step.
commit_analyzer_node_FailureUnmarked(s, outcome, t) ==
    IF ~TruthyObj(s.commit_data)
    THEN mark_step_complete(
             add_error(s, <<"CommitAnalyzer", "requires_commit_data">>),
             <<"commit_analysis">>, t)
    ELSE IF outcome.kind = "ok"
    THEN mark_step_complete([s EXCEPT !.commit_analysis = Some("analysis")],
                            <<"commit_analysis">>, t)
    ELSE add_error(s, CommitAnalyzerErrorHandler_get_user_message(
                          outcome.exc, s.repo_identifier, s.commit_sha))

commit_analyzer_node(s, outcome, t) ==
    IF ~TruthyObj(s.commit_data)
    THEN mark_step_complete(
             add_error(s, <<"CommitAnalyzer", "requires_commit_data">>),
             <<"commit_analysis">>, t)
    ELSE LET s1 == IF outcome.kind = "ok"
                   THEN [s EXCEPT !.commit_analysis = Some("analysis")]
                   ELSE add_error(s,
                            CommitAnalyzerErrorHandler_get_user_message(
                                outcome.exc, s.repo_identifier, s.commit_sha))
         IN  mark_step_complete(s1, <<"commit_analysis">>, t)

\* ------------------------------------------------------ content synthesizer
\* The mode test asking only whether feedback was stored.
RefinementMode_AnyFeedback(s) ==
    TruthyObj(s.user_feedback) /\ TruthyObj(s.blog_post)

\* _extract_prompt_data chooses the refinement prompt on this condition.
RefinementMode(s) == TruthyStr(s.user_feedback) /\ TruthyObj(s.blog_post)

\* Lines 91-137: the "prompt" entry of the dictionary _extract_prompt_data
\* returns.
extract_prompt_data(s) ==
    IF RefinementMode(s) THEN "refinement_generation_prompt"
                         ELSE "initial_generation_prompt"

\* The synthesizer keeping the consumed feedback after a successful pass.
content_synthesizer_node_KeepsFeedback(s, outcome, t) ==
    LET iteration == s.synthesis_iteration_count + 1 IN
    IF ~TruthyObj(s.commit_analysis) \/ ~TruthyObj(s.commit_data)
    THEN mark_step_complete(
             add_error(s, <<"ContentSynthesizer", "requires_analysis">>),
             <<"content_synthesis", iteration>>, t)
    ELSE LET s1 == IF outcome.kind = "ok"
                   THEN [s EXCEPT !.blog_post = Some([draft |-> iteration,
                                      refined |-> RefinementMode(s)]),
                                  !.synthesis_iteration_count = iteration]
                   ELSE add_error(s,
                            ContentSynthesizerErrorHandler_get_user_message(
                                outcome.exc, s.repo_identifier, s.commit_sha))
         IN  mark_step_complete(s1, <<"content_synthesis", iteration>>, t)

\* The synthesizer returning from its prerequisite check without marking the
\* step.
content_synthesizer_node_CheckUnmarked(s, outcome, t) ==
    LET iteration == s.synthesis_iteration_count + 1 IN
    IF ~TruthyObj(s.commit_analysis) \/ ~TruthyObj(s.commit_data)
    THEN add_error(s, <<"ContentSynthesizer", "requires_analysis">>)
    ELSE LET s1 == IF outcome.kind = "ok"
                   THEN [s EXCEPT !.blog_post = Some([draft |-> iteration,
                                      refined |-> RefinementMode(s)]),
                                  !.synthesis_iteration_count = iteration,
                                  !.user_feedback = None]
                   ELSE add_error(s,
                            ContentSynthesizerErrorHandler_get_user_message(
                                outcome.exc, s.repo_identifier, s.commit_sha))
         IN  mark_step_complete(s1, <<"content_synthesis", iteration>>, t)

\* The synthesizer clearing the feedback whether or not its call succeeded.
content_synthesizer_node_ClearsFeedbackAlways(s, outcome, t) ==
    LET iteration == s.synthesis_iteration_count + 1 IN
    IF ~TruthyObj(s.commit_analysis) \/ ~TruthyObj(s.commit_data)
    THEN mark_step_complete(
             add_error(s, <<"ContentSynthesizer", "requires_analysis">>),
             <<"content_synthesis", iteration>>, t)
    ELSE LET s1 == IF outcome.kind = "ok"
                   THEN [s EXCEPT !.blog_post = Some([draft |-> iteration,
                                      refined |-> RefinementMode(s)]),
                                  !.synthesis_iteration_count = iteration,
                                  !.user_feedback = None]
                   ELSE [add_error(s,
                            ContentSynthesizerErrorHandler_get_user_message(
                                outcome.exc, s.repo_identifier, s.commit_sha))
                           EXCEPT !.user_feedback = None]
         IN  mark_step_complete(s1, <<"content_synthesis", iteration>>, t)

\* The synthesizer counting a failed pass as an iteration.
content_synthesizer_node_CountsFailures(s, outcome, t) ==
    LET iteration == s.synthesis_iteration_count + 1 IN
    IF ~TruthyObj(s.commit_analysis) \/ ~TruthyObj(s.commit_data)
    THEN mark_step_complete(
             add_error(s, <<"ContentSynthesizer", "requires_analysis">>),
             <<"content_synthesis", iteration>>, t)
    ELSE LET s1 == IF outcome.kind = "ok"
                   THEN [s EXCEPT !.blog_post = Some([draft |-> iteration,
                                      refined |-> RefinementMode(s)]),
                                  !.synthesis_iteration_count = iteration,
                                  !.user_feedback = None]
                   ELSE [add_error(s,
                            ContentSynthesizerErrorHandler_get_user_message(
                                outcome.exc, s.repo_identifier, s.commit_sha))
                           EXCEPT !.synthesis_iteration_count = iteration]
         IN  mark_step_complete(s1, <<"content_synthesis", iteration>>, t)

\* The synthesizer recording every pass under the key of the first.
content_synthesizer_node_FixedKey(s, outcome, t) ==
    LET iteration == s.synthesis_iteration_count + 1 IN
    IF ~TruthyObj(s.commit_analysis) \/ ~TruthyObj(s.commit_data)
    THEN mark_step_complete(
             add_error(s, <<"ContentSynthesizer", "requires_analysis">>),
             <<"content_synthesis", 1>>, t)
    ELSE LET s1 == IF outcome.kind = "ok"
                   THEN [s EXCEPT !.blog_post = Some([draft |-> iteration,
                                      refined |-> RefinementMode(s)]),
                                  !.synthesis_iteration_count = iteration,
                                  !.user_feedback = None]
                   ELSE add_error(s,
                            ContentSynthesizerErrorHandler_get_user_message(
                                outcome.exc, s.repo_identifier, s.commit_sha))
         IN  mark_step_complete(s1, <<"content_synthesis", 1>>, t)

content_synthesizer_node(s, outcome, t) ==
    LET iteration == s.synthesis_iteration_count + 1 IN
    IF ~TruthyObj(s.commit_analysis) \/ ~TruthyObj(s.commit_data)
    THEN mark_step_complete(
             add_error(s, <<"ContentSynthesizer", "requires_analysis">>),
             <<"content_synthesis", iteration>>, t)
    ELSE LET s1 == IF outcome.kind = "ok"
                   THEN [s EXCEPT !.blog_post = Some([draft |-> iteration,
                                      refined |-> RefinementMode(s)]),
                                  !.synthesis_iteration_count = iteration,
                                  !.user_feedback = None]
                   ELSE add_error(s,
                            ContentSynthesizerErrorHandler_get_user_message(
                                outcome.exc, s.repo_identifier, s.commit_sha))
         IN  mark_step_complete(s1, <<"content_synthesis", iteration>>, t)

\* --------------------------------------------------------- human refinement
\* The early return leaving no trace in errors.
human_refinement_no_post_Silent(s) == s

\* Lines 37-40: the early return when there is no draft to review.
human_refinement_no_post(s) ==
    [s EXCEPT !.errors = Append(@, <<"HumanRefinementNode", "no_blog_post">>)]

\* Lines 50-62: classification of one entry at the satisfaction prompt.
SatisfiedAnswer(entry) ==
    LET satisfied_input == Strip(Lower(entry)) IN
    IF satisfied_input \in { <<"y">>, <<"y", "e", "s">> } THEN "yes"
    ELSE IF satisfied_input \in { <<"n">>, <<"n", "o">> } THEN "no"
    ELSE "invalid"

\* Lines 52-54 and 65: the reviewer is satisfied.
\* The satisfied branch storing an empty string where line 52 stores None.
human_refinement_satisfied_EmptyFeedback(s) ==
    [s EXCEPT !.user_satisfied = Some(TRUE),
              !.user_feedback = Some(<<>>),
              !.synthesis_iteration_count = @ + 1]

\* The satisfied branch without the assignment of line 52.
human_refinement_satisfied_KeepsFeedback(s) ==
    [s EXCEPT !.user_satisfied = Some(TRUE),
              !.synthesis_iteration_count = @ + 1]

human_refinement_satisfied(s) ==
    [s EXCEPT !.user_satisfied = Some(TRUE),
              !.user_feedback = None,
              !.synthesis_iteration_count = @ + 1]

\* The dissatisfied branch leaving the loop before the counter update.
human_refinement_feedback_NoIncrement(s, entry) ==
    [s EXCEPT !.user_satisfied = Some(FALSE),
              !.user_feedback = Some(Strip(entry))]

\* Lines 56-59 and 65: the reviewer is not satisfied and typed feedback.
human_refinement_feedback(s, entry) ==
    [s EXCEPT !.user_satisfied = Some(FALSE),
              !.user_feedback = Some(Strip(entry)),
              !.synthesis_iteration_count = @ + 1]

\* ------------------------------------------------------ publishing decision
\* Lines 10-14: the guard on reviewer satisfaction.
publishing_decision_rejected(s) ==
    add_error(s, <<"PublishingDecisionNode", "no_user_satisfaction">>)

\* The preselection test recognising only the two publishing targets.
DecisionPreselected_PublishOnly(s) ==
    s.publishing_decision \in { Some("ghost"), Some("notion") }

\* Line 17: a decision was preselected.
DecisionPreselected(s) ==
    s.publishing_decision \in { Some(tok) : tok \in PublishingTokens }

\* The menu of the three-option version of the node: 1 Ghost, 2 local,
\* 3 discard.
MenuChoice_ThreeOptions(entry) ==
    LET choice == Strip(entry) IN
    CASE choice = <<"1">> -> Some("ghost")
      [] choice = <<"2">> -> Some("local")
      [] choice = <<"3">> -> Some("discard")
      [] OTHER -> None

\* The menu with the branches of entries 2 and 3 exchanged.
MenuChoice_LocalBeforeNotion(entry) ==
    LET choice == Strip(entry) IN
    CASE choice = <<"1">> -> Some("ghost")
      [] choice = <<"2">> -> Some("local")
      [] choice = <<"3">> -> Some("notion")
      [] choice = <<"4">> -> Some("discard")
      [] OTHER -> None

\* Lines 34-53: the branch taken for one menu entry.
MenuChoice(entry) ==
    LET choice == Strip(entry) IN
    CASE choice = <<"1">> -> Some("ghost")
      [] choice = <<"2">> -> Some("notion")
      [] choice = <<"3">> -> Some("local")
      [] choice = <<"4">> -> Some("discard")
      [] OTHER -> None

\* -------------------------------------------------------------------- sinks
\* A sink node returns a partial update: [errors |-> list] replaces the
\* errors list, [published_url |-> TRUE] and [local_draft_path |-> TRUE]
\* name no AgentState field.
\* outcome: the environment of publish_to_ghost_node: whether GHOST_API_URL
\* and GHOST_ADMIN_API_KEY are configured.
GhostOutcomes == { "unconfigured", "configured" }

\* The Ghost sink returning only its own message as the errors list.
publish_to_ghost_node_ReturnsOnlyNew(s, outcome) ==
    IF ~TruthyObj(s.blog_post)
    THEN [errors |-> << <<"PublishToGhost", "no_blog_post">> >>]
    ELSE IF outcome = "unconfigured"
    THEN [errors |-> << <<"PublishToGhost", "failed", "ConfigurationError">> >>]
    ELSE [errors |-> << <<"PublishToGhost", "unexpected", "ValueError">> >>]

\* Lines 23-62.  With credentials present the node renders the post and then
\* assigns state.blog_post.html (line 41); BlogPostOutput declares no html
\* field, so the assignment raises ValueError, caught at line 59.
publish_to_ghost_node(s, outcome) ==
    IF ~TruthyObj(s.blog_post)
    THEN [errors |-> Append(s.errors, <<"PublishToGhost", "no_blog_post">>)]
    ELSE IF outcome = "unconfigured"
    THEN [errors |-> Append(s.errors,
                       <<"PublishToGhost", "failed", "ConfigurationError">>)]
    ELSE [errors |-> Append(s.errors,
                       <<"PublishToGhost", "unexpected", "ValueError">>)]

\* outcome: "ok", or the type of the exception raised in the try block.
NotionOutcomes ==
    { "ok", "ConfigurationError", "PublishingError", "NotionApiError",
      "Exception" }

publish_to_notion_node(s, outcome) ==
    IF ~TruthyObj(s.blog_post)
    THEN [errors |-> Append(s.errors, <<"PublishToNotion", "no_blog_post">>)]
    ELSE IF outcome = "ok" THEN [published_url |-> TRUE]
    ELSE IF outcome = "Exception"
    THEN [errors |-> Append(s.errors,
                       <<"PublishToNotion", "unexpected", outcome>>)]
    ELSE [errors |-> Append(s.errors, <<"PublishToNotion", "failed", outcome>>)]

LocalOutcomes == { "ok", "IOError", "Exception" }

\* The local sink reporting the path of a file it failed to write.
save_local_draft_node_PathOnFailure(s, outcome) ==
    IF ~TruthyObj(s.blog_post)
    THEN [errors |-> Append(s.errors, <<"SaveLocalDraft", "no_blog_post">>)]
    ELSE IF outcome = "ok" THEN [local_draft_path |-> TRUE]
    ELSE IF outcome = "IOError"
    THEN [errors |-> Append(s.errors, <<"SaveLocalDraft", "file_system">>),
          local_draft_path |-> TRUE]
    ELSE [errors |-> Append(s.errors, <<"SaveLocalDraft", "unexpected">>)]

save_local_draft_node(s, outcome) ==
    IF ~TruthyObj(s.blog_post)
    THEN [errors |-> Append(s.errors, <<"SaveLocalDraft", "no_blog_post">>)]
    ELSE IF outcome = "ok" THEN [local_draft_path |-> TRUE]
    ELSE IF outcome = "IOError"
    THEN [errors |-> Append(s.errors, <<"SaveLocalDraft", "file_system">>)]
    ELSE [errors |-> Append(s.errors, <<"SaveLocalDraft", "unexpected">>)]

\* The runtime writes a node's partial update into the state, key by key.
ApplyUpdate(s, update) ==
    IF "errors" \in DOMAIN update
    THEN [s EXCEPT !.errors = update.errors]
    ELSE s

\* ------------------------------------------------------------------- graph
\* The graph with the refinement loop closed on the analyzer instead of the
\* synthesizer.
NextNode_LoopToAnalyzer(node, s) ==
    CASE node = "input_validator"     -> "commit_fetcher"
      [] node = "commit_fetcher"      -> "commit_analyzer"
      [] node = "commit_analyzer"     -> "content_synthesizer"
      [] node = "content_synthesizer" -> "human_review_loop"
      [] node = "human_review_loop"   ->
            IF should_continue_iteration(s) = "content_synthesizer"
            THEN "commit_analyzer" ELSE "publishing_decision"
      [] node = "publishing_decision" -> should_publish_blog(s)
      [] node = "blog_publisher"      -> END

\* create_workflow(): the edge leaving each node, evaluated on the state the
\* node returned.
NextNode(node, s) ==
    CASE node = "input_validator"     -> "commit_fetcher"
      [] node = "commit_fetcher"      -> "commit_analyzer"
      [] node = "commit_analyzer"     -> "content_synthesizer"
      [] node = "content_synthesizer" -> "human_review_loop"
      [] node = "human_review_loop"   -> should_continue_iteration(s)
      [] node = "publishing_decision" -> should_publish_blog(s)
      [] node = "blog_publisher"      -> END

\* The node returns state s2 and the runtime follows its outgoing edge.
NodeReturns(node, s2) ==
    /\ state' = s2
    /\ pc' = NextNode(node, s2)
    /\ last_node' = node
    /\ prompt' = "none"
    /\ now' = now + 1

Init ==
    /\ \E id \in IdentityInputs,
          preselect \in { None } \cup { Some(tok) : tok \in PublishingTokens } :
            state = AgentState(id[1], id[2], id[3], preselect)
    /\ pc = "input_validator"
    /\ prompt = "none"
    /\ now = 0
    /\ last_node = "none"
    /\ last_entry = <<>>
    /\ synth_runs = 0
    /\ human_runs = 0
    /\ menu_inputs = 0
    /\ invalid_entries = 0
    /\ last_call = NoCall
    /\ published = <<>>
    /\ http_log = <<>>
    /\ llm_calls = 0
    /\ last_prompt = "none"

InputValidator ==
    /\ pc = "input_validator" /\ prompt = "none"
    /\ NodeReturns("input_validator", input_validator_node(state, now))
    /\ UNCHANGED <<last_entry, synth_runs, human_runs, menu_inputs,
                   invalid_entries, last_call, published,
                   http_log, llm_calls, last_prompt>>

CommitFetcher ==
    /\ pc = "commit_fetcher" /\ prompt = "none"
    /\ \E outcome \in FetchOutcomes :
          /\ NodeReturns("commit_fetcher",
                         commit_fetcher_node(state, outcome, now))
          /\ last_call' = IF parse_repo_identifier(state.repo_identifier).ok
                          THEN outcome ELSE NoCall
    /\ UNCHANGED <<last_entry, synth_runs, human_runs, menu_inputs, invalid_entries, published,
                   http_log, llm_calls, last_prompt>>

CommitAnalyzer ==
    /\ pc = "commit_analyzer" /\ prompt = "none"
    /\ \E first \in LLMOutcomes, further \in FurtherOutcomes :
          LET run == chain_invoke(<<first, further>>)
              called == TruthyObj(state.commit_data)
          IN  /\ NodeReturns("commit_analyzer",
                             commit_analyzer_node(state, run.outcome, now))
              /\ last_call' = IF called THEN run.outcome ELSE NoCall
              /\ llm_calls' = llm_calls + (IF called THEN run.calls ELSE 0)
    /\ UNCHANGED <<last_entry, synth_runs, human_runs, menu_inputs,
                   invalid_entries, published, http_log, last_prompt>>

ContentSynthesizer ==
    /\ pc = "content_synthesizer" /\ prompt = "none"
    /\ \E first \in LLMOutcomes, further \in FurtherOutcomes :
          LET run == chain_invoke(<<first, further>>)
              called == TruthyObj(state.commit_analysis)
                            /\ TruthyObj(state.commit_data)
          IN  /\ NodeReturns("content_synthesizer",
                             content_synthesizer_node(state, run.outcome, now))
              /\ last_call' = IF called THEN run.outcome ELSE NoCall
              /\ llm_calls' = llm_calls + (IF called THEN run.calls ELSE 0)
              /\ last_prompt' = IF called THEN extract_prompt_data(state)
                                          ELSE last_prompt
    /\ synth_runs' = synth_runs + 1
    /\ UNCHANGED <<last_entry, human_runs, menu_inputs, invalid_entries,
                   published, http_log>>

\* human_refinement_node up to its first input() call, or its early return.
HumanRefinementStart ==
    /\ pc = "human_review_loop" /\ prompt = "none"
    /\ IF ~TruthyObj(state.blog_post)
       THEN /\ NodeReturns("human_review_loop", human_refinement_no_post(state))
            /\ human_runs' = human_runs + 1
       ELSE /\ prompt' = "satisfied"
            /\ UNCHANGED <<state, pc, now, last_node, human_runs>>
    /\ UNCHANGED <<last_entry, synth_runs, menu_inputs, invalid_entries,
                   last_call, published,
                   http_log, llm_calls, last_prompt>>

\* "Are you satisfied with this draft? (y/n): " answered y or yes.
HumanSatisfiedYes ==
    /\ pc = "human_review_loop" /\ prompt = "satisfied"
    /\ \E entry \in SatisfiedEntries :
          /\ SatisfiedAnswer(entry) = "yes"
          /\ last_entry' = entry
          /\ NodeReturns("human_review_loop", human_refinement_satisfied(state))
    /\ human_runs' = human_runs + 1
    /\ UNCHANGED <<synth_runs, menu_inputs, invalid_entries,
                   last_call, published,
                   http_log, llm_calls, last_prompt>>

\* ... answered n or no: the node goes on to ask for feedback.
HumanSatisfiedNo ==
    /\ pc = "human_review_loop" /\ prompt = "satisfied"
    /\ \E entry \in SatisfiedEntries :
          /\ SatisfiedAnswer(entry) = "no"
          /\ last_entry' = entry
    /\ state' = [state EXCEPT !.user_satisfied = Some(FALSE)]
    /\ prompt' = "feedback"
    /\ UNCHANGED <<pc, now, last_node, synth_runs, human_runs, menu_inputs,
                   invalid_entries,
                   last_call, published,
                   http_log, llm_calls, last_prompt>>

\* ... answered anything else: "Invalid input", the node asks again.
HumanSatisfiedInvalid ==
    /\ pc = "human_review_loop" /\ prompt = "satisfied"
    /\ invalid_entries < MaxInvalid
    /\ \E entry \in SatisfiedEntries :
          /\ SatisfiedAnswer(entry) = "invalid"
          /\ last_entry' = entry
    /\ invalid_entries' = invalid_entries + 1
    /\ UNCHANGED <<state, pc, prompt, now, last_node, synth_runs, human_runs,
                   menu_inputs,
                   last_call, published,
                   http_log, llm_calls, last_prompt>>

\* "What would you like me to change?: " answered.
HumanFeedback ==
    /\ pc = "human_review_loop" /\ prompt = "feedback"
    /\ \E entry \in FeedbackEntries :
          /\ last_entry' = entry
          /\ NodeReturns("human_review_loop",
                         human_refinement_feedback(state, entry))
    /\ human_runs' = human_runs + 1
    /\ UNCHANGED <<synth_runs, menu_inputs, invalid_entries,
                   last_call, published,
                   http_log, llm_calls, last_prompt>>

\* publishing_decision_node up to its first input() call, or its return.
PublishingDecisionStart ==
    /\ pc = "publishing_decision" /\ prompt = "none"
    /\ IF ~TruthyBool(state.user_satisfied)
       THEN NodeReturns("publishing_decision", publishing_decision_rejected(state))
       ELSE IF DecisionPreselected(state)
       THEN NodeReturns("publishing_decision",
                mark_step_complete(state, <<"publishing_decision">>, now))
       ELSE /\ prompt' = "choice"
            /\ UNCHANGED <<state, pc, now, last_node>>
    /\ UNCHANGED <<last_entry, synth_runs, human_runs, menu_inputs, invalid_entries,
                   last_call, published,
                   http_log, llm_calls, last_prompt>>

\* "Enter your choice (1-4): " answered with one of the four menu numbers.
PublishingChoiceValid ==
    /\ pc = "publishing_decision" /\ prompt = "choice"
    /\ \E entry \in MenuEntries :
          /\ MenuChoice(entry) # None
          /\ last_entry' = entry
          /\ NodeReturns("publishing_decision",
                mark_step_complete(
                    [state EXCEPT !.publishing_decision = MenuChoice(entry)],
                    <<"publishing_decision">>, now))
    /\ menu_inputs' = menu_inputs + 1
    /\ UNCHANGED <<synth_runs, human_runs, invalid_entries,
                   last_call, published,
                   http_log, llm_calls, last_prompt>>

\* ... answered with anything else: "Invalid choice", the menu is shown again.
PublishingChoiceInvalid ==
    /\ pc = "publishing_decision" /\ prompt = "choice"
    /\ invalid_entries < MaxInvalid
    /\ \E entry \in MenuEntries :
          /\ MenuChoice(entry) = None
          /\ last_entry' = entry
    /\ menu_inputs' = menu_inputs + 1
    /\ invalid_entries' = invalid_entries + 1
    /\ UNCHANGED <<state, pc, prompt, now, last_node, synth_runs, human_runs,
                   last_call, published,
                   http_log, llm_calls, last_prompt>>

Next ==
    \/ InputValidator
    \/ CommitFetcher
    \/ CommitAnalyzer
    \/ ContentSynthesizer
    \/ HumanRefinementStart
    \/ HumanSatisfiedYes
    \/ HumanSatisfiedNo
    \/ HumanSatisfiedInvalid
    \/ HumanFeedback
    \/ PublishingDecisionStart
    \/ PublishingChoiceValid
    \/ PublishingChoiceInvalid

Spec == Init /\ [][Next]_vars

\* A sink node is called on the state the run ended with.
SinkCalled(node, token, update, wrote) ==
    /\ pc = END /\ last_node = "publishing_decision"
    /\ state.publishing_decision = Some(token)
    /\ state' = ApplyUpdate(state, update)
    /\ published' = IF wrote THEN Append(published, token) ELSE published
    /\ last_node' = node
    /\ UNCHANGED <<pc, prompt, now, last_entry, synth_runs, human_runs,
                   menu_inputs, invalid_entries, last_call, http_log, llm_calls, last_prompt>>

PublishToGhost ==
    \E outcome \in GhostOutcomes :
        LET update == publish_to_ghost_node(state, outcome)
        IN  SinkCalled("publish_to_ghost", "ghost", update,
                       "published_url" \in DOMAIN update)

PublishToNotion ==
    \E outcome \in NotionOutcomes :
        LET update == publish_to_notion_node(state, outcome)
        IN  SinkCalled("publish_to_notion", "notion", update,
                       "published_url" \in DOMAIN update)

SaveLocalDraft ==
    \E outcome \in LocalOutcomes :
        LET update == save_local_draft_node(state, outcome)
        IN  SinkCalled("save_local_draft", "local", update,
                       "local_draft_path" \in DOMAIN update)

SinkNext ==
    \/ Next
    \/ PublishToGhost
    \/ PublishToNotion
    \/ SaveLocalDraft

SinkSpec == Init /\ [][SinkNext]_vars

\* SinkSpec under the scheduling of FairSpec; a sink call is left to the
\* caller and is not forced.
FairSinkSpec ==
    /\ SinkSpec
    /\ WF_vars(InputValidator)
    /\ WF_vars(CommitFetcher)
    /\ WF_vars(CommitAnalyzer)
    /\ WF_vars(ContentSynthesizer)
    /\ WF_vars(HumanRefinementStart)
    /\ WF_vars(HumanSatisfiedYes \/ HumanSatisfiedNo)
    /\ WF_vars(HumanFeedback)
    /\ WF_vars(PublishingDecisionStart)
    /\ WF_vars(PublishingChoiceValid)

\* The runtime runs the next node whenever one is due, and every prompt is
\* eventually given a valid answer.
FairSpec ==
    /\ Spec
    /\ WF_vars(InputValidator)
    /\ WF_vars(CommitFetcher)
    /\ WF_vars(CommitAnalyzer)
    /\ WF_vars(ContentSynthesizer)
    /\ WF_vars(HumanRefinementStart)
    /\ WF_vars(HumanSatisfiedYes \/ HumanSatisfiedNo)
    /\ WF_vars(HumanFeedback)
    /\ WF_vars(PublishingDecisionStart)
    /\ WF_vars(PublishingChoiceValid)

\* The fetcher with its get_commit request spelled out: the run up to the
\* return of commit_fetcher_node.  rest is what the calls after get_commit do.
CommitFetcherRequest ==
    /\ pc = "commit_fetcher" /\ prompt = "none"
    /\ parse_repo_identifier(state.repo_identifier).ok
    /\ \E server \in Servers, rest \in FetchOutcomes :
          LET request == GitHubClient_make_request(server)
              outcome == IF request.result.kind = "ok" THEN rest
                         ELSE request.result
          IN  /\ NodeReturns("commit_fetcher",
                             commit_fetcher_node(state, outcome, now))
              /\ last_call' = outcome
              /\ http_log' = request.log
    /\ UNCHANGED <<last_entry, synth_runs, human_runs, menu_inputs,
                   invalid_entries, published, llm_calls, last_prompt>>

ClientNext ==
    \/ InputValidator
    \/ CommitFetcherRequest

ClientSpec == Init /\ [][ClientNext]_vars

\* ================================================================== claims

\* C1: whenever the loop edge is evaluated (the human-refinement node has just
\* returned) in a state whose synthesis_iteration_count is at or above
\* max_iterations, the edge routes to publishing_decision, never back to
\* content_synthesizer, whatever user_satisfied holds.
C1_LoopEdgeStopsAtMax ==
    (last_node = "human_review_loop"
        /\ state.synthesis_iteration_count >= state.max_iterations)
    => pc = "publishing_decision"

\* C2: synthesis_iteration_count never exceeds max_iterations.
C2_CounterWithinMax ==
    state.synthesis_iteration_count <= state.max_iterations

\* C3: every run reaches END, and the synthesis node executes at most
\* max_iterations times.
C3_RunTerminates ==
    /\ <>(pc = END)
    /\ [](synth_runs <= state.max_iterations)

\* A run in which the reviewer was dissatisfied at every checkpoint has ended
\* after max_iterations synthesis passes.
W_C3_EndedAfterMaxPasses ==
    /\ pc = END
    /\ synth_runs = state.max_iterations
    /\ human_runs = state.max_iterations
    /\ state.user_satisfied = Some(FALSE)

\* C4: the loop edge returns publishing_decision when the counter is at or
\* above the maximum, else publishing_decision when user_satisfied is True,
\* else content_synthesizer when user_satisfied is False, else
\* publishing_decision.
C4_LoopEdgeFollowsPolicy ==
    LET LoopPolicy(counter, max, satisfied) ==
            IF counter >= max THEN "publishing_decision"
            ELSE IF satisfied = Some(TRUE) THEN "publishing_decision"
            ELSE IF satisfied = Some(FALSE) THEN "content_synthesizer"
            ELSE "publishing_decision"
    IN  last_node = "human_review_loop"
        => pc = LoopPolicy(state.synthesis_iteration_count,
                           state.max_iterations, state.user_satisfied)

\* C5: the loop edge's result depends only on synthesis_iteration_count,
\* max_iterations and user_satisfied: a state that differs from the evaluated
\* one only in its step-timestamp map is routed to the same node.
C5_LoopEdgeIgnoresOtherFields ==
    LET StepTimestampsWith(n) ==
            [step \in { <<"content_synthesis", i>> : i \in 1..n } |-> 0]
    IN  last_node = "human_review_loop"
        => \A n \in 0..state.max_iterations :
              should_continue_iteration(
                  [state EXCEPT !.step_timestamps = StepTimestampsWith(n)])
              = should_continue_iteration(state)

\* C6: the decision edge sends each of the three sink choices to its own sink
\* node and the discard choice, and every other value, to END.
C6_DecisionEdgeRoutesChoice ==
    LET DecisionPolicy(choice) ==
            CASE choice = Some("ghost")  -> "publish_to_ghost"
              [] choice = Some("notion") -> "publish_to_notion"
              [] choice = Some("local")  -> "save_local_draft"
              [] OTHER -> END
    IN  last_node = "publishing_decision"
        => pc = DecisionPolicy(state.publishing_decision)

\* C7: when the publishing decision is already one of the four tokens as the
\* publish-decision node starts, the node makes no input() call and leaves
\* the decision as it was.
C7_PreselectedDecisionBypassesMenu ==
    [][ (pc = "publishing_decision" /\ prompt = "none"
            /\ state.publishing_decision \in
                 { Some("ghost"), Some("notion"), Some("local"), Some("discard") })
        => (/\ prompt' = "none"
            /\ menu_inputs' = menu_inputs
            /\ state'.publishing_decision = state.publishing_decision) ]_vars

\* The publish-decision node has completed on a preselected decision without
\* reading any input.
W_C7_BypassTaken ==
    /\ last_node = "publishing_decision"
    /\ menu_inputs = 0
    /\ state.publishing_decision = Some("discard")
    /\ <<"publishing_decision">> \in DOMAIN state.step_timestamps

\* C8: whenever the publish-decision node has run, the publishing decision is
\* one of the four tokens.
C8_DecisionNodeEndsWithChoice ==
    last_node = "publishing_decision"
    => state.publishing_decision \in
         { Some("ghost"), Some("notion"), Some("local"), Some("discard") }

C10_EveryPassIncrements ==
    [][ human_runs' = human_runs + 1
        => state'.synthesis_iteration_count
             = state.synthesis_iteration_count + 1 ]_vars

\* C10 amended: an execution of the human-refinement node that has a draft to
\* review raises synthesis_iteration_count by exactly one, on return, whether
\* the reviewer was satisfied or not; an execution without a draft leaves the
\* counter unchanged.
C10_PassWithDraftIncrements ==
    [][ /\ (human_runs' = human_runs + 1
              => state'.synthesis_iteration_count
                   = state.synthesis_iteration_count
                     + (IF state.blog_post # None THEN 1 ELSE 0))
        /\ (pc = "human_review_loop" /\ human_runs' = human_runs
              => state'.synthesis_iteration_count
                   = state.synthesis_iteration_count) ]_vars

\* The human-refinement node has returned after a dissatisfied review.
W_C10_ReviewedDraft ==
    /\ last_node = "human_review_loop"
    /\ state.blog_post # None
    /\ state.user_satisfied = Some(FALSE)
    /\ human_runs >= 1

\* C11: whenever the human-refinement node has finished with user_satisfied
\* False, user_feedback holds a non-empty string.
C11_DissatisfiedHasFeedback ==
    (last_node = "human_review_loop" /\ prompt = "none"
        /\ state.user_satisfied = Some(FALSE))
    => (state.user_feedback # None /\ state.user_feedback[1] # <<>>)

\* C12: a synthesis pass that runs in refinement mode (non-empty user_feedback
\* and an existing blog_post) and succeeds leaves user_feedback None.
C12_RefinementClearsFeedback ==
    [][ (/\ synth_runs' = synth_runs + 1
         /\ state.user_feedback # None
         /\ state.user_feedback[1] # <<>>
         /\ state.blog_post # None
         /\ last_call'.kind = "ok")
        => state'.user_feedback = None ]_vars

\* A refinement pass has just succeeded: the draft in the state was produced
\* from feedback and the feedback is gone.
W_C12_RefinedDraft ==
    /\ last_node = "content_synthesizer"
    /\ last_call.kind = "ok"
    /\ state.blog_post # None
    /\ state.blog_post[1].refined
    /\ state.user_feedback = None
    /\ synth_runs >= 2

\* C13: the synthesis node executed on a state without commit_analysis
\* returns normally (its outgoing edge is followed), appends exactly one
\* entry to errors, leaves blog_post None and records the step timestamp of
\* the pass.
C13_SynthesisWithoutAnalysis ==
    [][ (synth_runs' = synth_runs + 1 /\ state.commit_analysis = None)
        => LET key == <<"content_synthesis",
                        state.synthesis_iteration_count + 1>>
           IN  /\ last_node' = "content_synthesizer"
               /\ pc' = "human_review_loop"
               /\ Len(state'.errors) = Len(state.errors) + 1
               /\ SubSeq(state'.errors, 1, Len(state.errors)) = state.errors
               /\ state'.blog_post = None
               /\ key \in DOMAIN state'.step_timestamps
               /\ state'.step_timestamps[key] = now
               /\ state'.current_step = key ]_vars

\* The synthesis node has run once on a state whose analysis failed.
W_C13_SkippedSynthesis ==
    /\ last_node = "content_synthesizer"
    /\ synth_runs = 1
    /\ state.commit_data # None
    /\ state.commit_analysis = None
    /\ last_call = [kind |-> "none"]
    /\ <<"content_synthesis", 1>> \in DOMAIN state.step_timestamps

\* C14: every execution of the analysis node and of the synthesis node
\* records its step timestamp and returns normally; an execution whose model
\* call raised appends exactly one entry to errors and leaves the node's
\* artifact field (commit_analysis, blog_post) as it was.
C14_StageAlwaysCompletes ==
    [][ LET analysis == pc = "commit_analyzer" /\ last_node' = "commit_analyzer"
            synthesis == synth_runs' = synth_runs + 1
            key == IF analysis THEN <<"commit_analysis">>
                   ELSE <<"content_synthesis",
                          state.synthesis_iteration_count + 1>>
        IN  (analysis \/ synthesis)
            => /\ key \in DOMAIN state'.step_timestamps
               /\ state'.step_timestamps[key] = now
               /\ state'.current_step = key
               /\ pc' = IF analysis THEN "content_synthesizer"
                        ELSE "human_review_loop"
               /\ (last_call'.kind = "raise"
                     => /\ Len(state'.errors) = Len(state.errors) + 1
                        /\ SubSeq(state'.errors, 1, Len(state.errors))
                             = state.errors
                        /\ state'.commit_analysis = state.commit_analysis
                        /\ state'.blog_post = state.blog_post
                        /\ (analysis => state'.commit_analysis = None)) ]_vars

\* A refinement pass has failed in the model call: the earlier draft is still
\* in the state, one diagnostic was added and the pass is timestamped.
W_C14_FailedRefinementPass ==
    /\ last_node = "content_synthesizer"
    /\ last_call.kind = "raise"
    /\ synth_runs = 2
    /\ state.blog_post # None
    /\ state.blog_post[1].draft = 1
    /\ <<"content_synthesis", 3>> \in DOMAIN state.step_timestamps
    /\ <<"commit_analysis">> \in DOMAIN state.step_timestamps

\* C15 as claimed: no step changes repo_identifier, commit_sha or
\* user_instructions.
C15_IdentityNeverChanges ==
    [][ /\ state'.repo_identifier = state.repo_identifier
        /\ state'.commit_sha = state.commit_sha
        /\ state'.user_instructions = state.user_instructions ]_vars

\* C15 amended: user_instructions is changed by no step; repo_identifier and
\* commit_sha are changed by the validator only, which replaces a valid value
\* by its normalised form (owner/repo without URL prefix and .git suffix; the
\* 40 hex digits stripped and lower-cased) and leaves an invalid value as it
\* was.
C15_IdentityOnlyNormalised ==
    [][ /\ state'.user_instructions = state.user_instructions
        /\ (pc # "input_validator"
              => /\ state'.repo_identifier = state.repo_identifier
                 /\ state'.commit_sha = state.commit_sha)
        /\ (pc = "input_validator"
              => LET rv == validate_repository(state.repo_identifier)
                     cv == validate_commit_sha(state.commit_sha)
                 IN  /\ state'.repo_identifier =
                            IF rv.valid THEN rv.value ELSE state.repo_identifier
                     /\ state'.commit_sha =
                            IF cv.valid THEN cv.value ELSE state.commit_sha
                     /\ (rv.valid =>
                            \A i \in 1..Len(state'.repo_identifier) :
                               state'.repo_identifier[i] \notin
                                 {"https://github.com/", "github.com/", ".git"})
                     /\ (cv.valid =>
                            /\ state'.commit_sha.len = state.commit_sha.len
                            /\ state'.commit_sha.chars = "lowerhex"
                            /\ ~state'.commit_sha.padded)) ]_vars

\* The validator has accepted the run started with a repository URL and a
\* padded upper-case SHA (the only input with instructions and a 40-digit
\* SHA): both fields now hold their normalised forms.
W_C15_NormalisedIdentity ==
    /\ last_node = "input_validator"
    /\ state.user_instructions = Some("instructions")
    /\ state.repo_identifier = <<"owner", "/", "repo">>
    /\ state.commit_sha = Sha(40, "lowerhex", FALSE)
    /\ state.errors = <<>>
    /\ state.current_step = <<"input_validation">>

\* C16: every step, of a workflow node or of a sink node, leaves the errors
\* list as it was or extends it at the end: the list before the step is a
\* prefix of the list after it.
C16_ErrorsAppendOnly ==
    [][ /\ Len(state.errors) <= Len(state'.errors)
        /\ SubSeq(state'.errors, 1, Len(state.errors)) = state.errors ]_vars

\* A sink node has returned a replacement errors list on a state that already
\* held diagnostics of earlier stages: they are all still there, in order,
\* followed by the sink's own.
W_C16_SinkKeptDiagnostics ==
    /\ last_node = "publish_to_ghost"
    /\ Len(state.errors) >= 3
    /\ state.errors[1][1] = "InputValidator"
    /\ state.errors[Len(state.errors) - 1][1] = "PublishingDecisionNode"
    /\ state.errors[Len(state.errors)][1] = "PublishToGhost"

\* C17: a run whose fetch failed (commit_data stays None) reaches END; it got
\* there through one execution each of the analysis, synthesis and
\* human-refinement nodes, in that order, each of which appended its own
\* diagnostic after the fetcher's; and no sink writes the document out, not
\* even a sink called on the final state.
C17_FetchFailureRunsThrough ==
    /\ ((last_node = "commit_fetcher" /\ state.commit_data = None)
           ~> (pc = END))
    /\ [](state.commit_data = None => published = <<>>)
    /\ []((pc = END /\ state.commit_data = None)
            => LET d == SelectSeq(state.errors,
                                  LAMBDA x : x[1] # "InputValidator")
                   ts == state.step_timestamps
               IN  /\ synth_runs = 1 /\ human_runs = 1
                   /\ Len(d) >= 4
                   /\ d[1][1] = "CommitFetcher"
                   /\ d[2][1] = "CommitAnalyzer"
                   /\ d[3][1] = "ContentSynthesizer"
                   /\ d[4][1] = "HumanRefinementNode"
                   /\ ts[<<"commit_fetching">>] < ts[<<"commit_analysis">>]
                   /\ ts[<<"commit_analysis">>] < ts[<<"content_synthesis", 1>>]
                   /\ state.commit_analysis = None
                   /\ state.blog_post = None)

\* A run whose fetch failed has ended, the Notion sink was called on its
\* final state and wrote nothing.
W_C17_FailedFetchEnded ==
    /\ pc = END
    /\ state.commit_data = None
    /\ state.errors # <<>>
    /\ state.errors[1][1] = "CommitFetcher"
    /\ last_node = "publish_to_notion"
    /\ published = <<>>
    /\ Len(state.errors) >= 5

\* C18: control moves only along input_validator -> commit_fetcher ->
\* commit_analyzer -> content_synthesizer -> human_review_loop, from
\* human_review_loop back to content_synthesizer or on to
\* publishing_decision, and from there to END; the validator, the fetcher and
\* the analyzer are never entered again, and by the time the synthesizer
\* first runs each of the three has executed exactly once (the node
\* executions so far are those three plus the synthesis and human passes).
C18_StageOrder ==
    /\ [][ pc' # pc
           => <<pc, pc'>> \in
                { <<"input_validator", "commit_fetcher">>,
                  <<"commit_fetcher", "commit_analyzer">>,
                  <<"commit_analyzer", "content_synthesizer">>,
                  <<"content_synthesizer", "human_review_loop">>,
                  <<"human_review_loop", "content_synthesizer">>,
                  <<"human_review_loop", "publishing_decision">>,
                  <<"publishing_decision", END>> } ]_vars
    /\ [](pc = "input_validator" => now = 0 /\ last_node = "none")
    /\ [](pc = "commit_fetcher" => now = 1 /\ last_node = "input_validator")
    /\ [](pc = "commit_analyzer" => now = 2 /\ last_node = "commit_fetcher")
    /\ [](pc \in {"content_synthesizer", "human_review_loop"}
            => /\ now = 3 + synth_runs + human_runs
               /\ synth_runs - human_runs
                    = IF pc = "human_review_loop" THEN 1 ELSE 0)

\* The reviewer has just asked for a second revision: the synthesizer and the
\* human-refinement node have each run twice after the single validation,
\* fetch and analysis.
W_C18_SecondRevisionRequested ==
    /\ pc = "content_synthesizer"
    /\ last_node = "human_review_loop"
    /\ synth_runs = 2 /\ human_runs = 2
    /\ now = 7

ClassifierMarkers == {"rate limit", "timeout"}

ClassifierInputs ==
    LLMExceptions \cup FetchExceptions
      \cup { Exc(type, text) :
               type \in {"ConfigurationError", "LLMError", "ValidationError",
                         "Exception"},
               text \in SUBSET ClassifierMarkers }

ClassifierHandlers == {"CommitFetcher", "CommitAnalyzer", "ContentSynthesizer"}

get_user_message(handler, exception, repo, commit_sha) ==
    CASE handler = "CommitFetcher" ->
            CommitFetcherErrorHandler_get_user_message(
                exception, repo, commit_sha)
      [] handler = "CommitAnalyzer" ->
            CommitAnalyzerErrorHandler_get_user_message(
                exception, repo, commit_sha)
      [] handler = "ContentSynthesizer" ->
            ContentSynthesizerErrorHandler_get_user_message(
                exception, repo, commit_sha)

\* state.add_error(XErrorHandler.get_user_message(e, state.repo_identifier,
\* state.commit_sha)), the statement of each node's except clause, applied
\* to the identity as given or as the validator left it; nothing runs after
\* it.
Classify ==
    /\ last_call = NoCall
    /\ pc \in {"input_validator", "commit_fetcher"}
    /\ pc' = END
    /\ \E handler \in ClassifierHandlers, exception \in ClassifierInputs :
          /\ state' = add_error(state,
                          get_user_message(handler, exception,
                              state.repo_identifier, state.commit_sha))
          /\ last_call' = [kind |-> "raise", exc |-> exception]
    /\ UNCHANGED <<prompt, now, last_node, last_entry, synth_runs,
                   human_runs, menu_inputs, invalid_entries, published,
                   http_log, llm_calls, last_prompt>>

ClassifierNext == InputValidator \/ Classify

\* The commit identifier a diagnostic's text names, if it names one: the
\* analyzer's and the synthesizer's classified messages carry it as their
\* third part, the fetcher's not-found message as its fourth.
MessageCommit(message) ==
    CASE message[1] = "CommitFetcher" ->
            IF message[2] = "not_found" THEN Some(message[4]) ELSE None
      [] message[1] \in {"CommitAnalyzer", "ContentSynthesizer"} ->
            IF Len(message) >= 3 THEN Some(message[3]) ELSE None
      [] OTHER -> None

ClassifierSpec == Init /\ [][ClassifierNext]_vars

\* C21: when the server's first answer to the fetcher's get_commit request
\* is a 429, the client sends exactly one more request if the wait the
\* headers ask for (reset + 1 s when the limit is exhausted, none otherwise)
\* is at most 300 s, and no further request if it is above 300 s; in that
\* case the fetcher returns with the rate-limit diagnostic appended,
\* commit_data None and control passed to the analyzer.
C21_RateLimitRetriedOnce ==
    [][ (pc = "commit_fetcher" /\ pc' # pc /\ http_log' # <<>>
            /\ http_log'[1].answer.kind = "response"
            /\ http_log'[1].answer.status = "429")
        => LET first == http_log'[1].answer
               required == IF first.remaining <= 0 THEN first.reset + 1 ELSE 0
               gets == SelectSeq(http_log', LAMBDA x : x.ev = "get")
           IN  IF required <= 300
               THEN Len(gets) = 2
               ELSE /\ Len(gets) = 1
                    /\ state'.commit_data = None
                    /\ state'.errors
                         = Append(state.errors, <<"CommitFetcher", "rate_limit">>)
                    /\ pc' = "commit_analyzer"
                    /\ last_node' = "commit_fetcher" ]_vars

\* C22: an execution of the analysis node or of the synthesis node makes at
\* most one chain.invoke call; when that call fails schema validation no
\* second call follows in the execution, one invalid-format diagnostic is
\* appended and commit_analysis and blog_post stay as they were.
C22_ModelInvokedAtMostOnce ==
    [][ (\/ pc = "commit_analyzer" /\ last_node' = "commit_analyzer"
         \/ synth_runs' = synth_runs + 1)
        => /\ llm_calls' \in {llm_calls, llm_calls + 1}
           /\ (last_call' = [kind |-> "raise",
                             exc |-> [type |-> "ValidationError", text |-> {}]]
                 => /\ llm_calls' = llm_calls + 1
                    /\ Len(state'.errors) = Len(state.errors) + 1
                    /\ SubSeq(state'.errors, 1, Len(state.errors)) = state.errors
                    /\ state'.errors[Len(state'.errors)][2] = "invalid_format"
                    /\ state'.commit_analysis = state.commit_analysis
                    /\ state'.blog_post = state.blog_post) ]_vars

\* The analyzer has returned after its one model call failed schema
\* validation.
W_C22_ValidationFailedOnce ==
    /\ last_node = "commit_analyzer"
    /\ last_call.kind = "raise"
    /\ last_call.exc.type = "ValidationError"
    /\ llm_calls = 1
    /\ state.commit_analysis = None
    /\ state.errors[Len(state.errors)]
         = <<"CommitAnalyzer", "invalid_format", ShaPrefix8(state.commit_sha)>>

C24_SatisfiedFrame ==
    [][ (prompt = "satisfied" /\ SatisfiedAnswer(last_entry') = "yes"
             /\ human_runs' = human_runs + 1)
        => /\ state'.user_satisfied = Some(TRUE)
           /\ state'.user_feedback = None
           /\ state'.blog_post = state.blog_post
           /\ state'.commit_analysis = state.commit_analysis
           /\ state'.commit_data = state.commit_data
           /\ state'.errors = state.errors
           /\ state'.publishing_decision = state.publishing_decision ]_vars

\* The reviewer accepted the draft in a review that followed a failed
\* refinement pass: the feedback of the earlier review was still stored and
\* the errors list was not empty when the answer was given.
W_C24_AcceptedAfterFailedPass ==
    /\ last_node = "human_review_loop"
    /\ SatisfiedAnswer(last_entry) = "yes"
    /\ human_runs >= 2
    /\ state.user_satisfied = Some(TRUE)
    /\ state.user_feedback = None
    /\ state.blog_post # None
    /\ state.errors # <<>>

\* C25: a synthesis execution that calls the model uses the refinement
\* prompt exactly when the state it starts from holds a document and a
\* non-empty feedback string, and the initial prompt otherwise (no document,
\* no feedback, or empty feedback).
C25_RefinementVariantChoice ==
    [][ (synth_runs' = synth_runs + 1 /\ last_call'.kind # "none")
        => LET has_document == state.blog_post # None
               has_feedback == /\ state.user_feedback # None
                               /\ Len(state.user_feedback[1]) > 0
           IN  /\ last_prompt' = IF has_document /\ has_feedback
                                 THEN "refinement_generation_prompt"
                                 ELSE "initial_generation_prompt"
               /\ (last_call'.kind = "ok"
                     => state'.blog_post[1].refined
                          = (has_document /\ has_feedback)) ]_vars

\* A synthesis pass ran with the refinement prompt.
W_C25_RefinementVariant ==
    /\ last_node = "content_synthesizer"
    /\ last_prompt = "refinement_generation_prompt"
    /\ last_call.kind = "ok"
    /\ state.blog_post[1].refined

\* C26: the analysis and synthesis classifiers give a failure the first
\* category it matches in the order configuration, schema validation, rate
\* limit, timeout, generic provider, unclassified; a provider failure whose
\* text holds both the rate-limit and the timeout marker is classified as
\* rate limited, a failure of no known type as unclassified.
C26_ClassifierOrder ==
    (last_call.kind = "raise" /\ state.errors # <<>>
       /\ state.errors[Len(state.errors)][1]
            \in {"CommitAnalyzer", "ContentSynthesizer"})
    => LET e == last_call.exc
           provider == e.type = "LLMError"
           category ==
               IF e.type = "ConfigurationError" THEN "configuration"
               ELSE IF e.type = "ValidationError" THEN "invalid_format"
               ELSE IF provider /\ "rate limit" \in e.text THEN "rate_limit"
               ELSE IF provider /\ "timeout" \in e.text THEN "timeout"
               ELSE IF provider THEN "api_error"
               ELSE "unexpected"
       IN  state.errors[Len(state.errors)][2] = category

\* The analyzer's classifier was given a provider failure with both markers
\* and answered rate limited.
W_C26_BothMarkersRateLimited ==
    /\ pc = END
    /\ last_call = [kind |-> "raise",
                    exc |-> [type |-> "LLMError",
                             text |-> {"rate limit", "timeout"}]]
    /\ Len(state.errors) = 1
    /\ state.errors[1][1] = "CommitAnalyzer"
    /\ state.errors[1][2] = "rate_limit"

\* C27 as claimed: every classified message names the commit identifier cut
\* to its first 8 characters (whole when shorter), whichever stage's
\* classifier produced it.
C27_EveryMessageNamesCommit ==
    (last_call.kind = "raise" /\ state.errors # <<>>
       /\ state.errors[Len(state.errors)][1] \in ClassifierHandlers)
    => MessageCommit(state.errors[Len(state.errors)])
         = Some([state.commit_sha EXCEPT !.len = IF @ >= 8 THEN 8 ELSE @])

\* C27 amended: the analysis and synthesis classifiers give each of their six
\* categories a message no other category gives, and each of these messages
\* names the commit identifier cut to its first 8 characters (whole when
\* shorter); of the fetch classifier's messages only the not-found one names
\* the commit.
C27_AnalysisMessagesNameCommit ==
    (last_call.kind = "raise" /\ state.errors # <<>>
       /\ state.errors[Len(state.errors)][1] \in ClassifierHandlers)
    => LET message == state.errors[Len(state.errors)]
           handler == message[1]
           commit_short ==
               [state.commit_sha EXCEPT !.len = IF @ >= 8 THEN 8 ELSE @]
           Category(e) ==
               IF e.type = "ConfigurationError" THEN "configuration"
               ELSE IF e.type = "ValidationError" THEN "invalid_format"
               ELSE IF e.type # "LLMError" THEN "unexpected"
               ELSE IF "rate limit" \in e.text THEN "rate_limit"
               ELSE IF "timeout" \in e.text THEN "timeout"
               ELSE "api_error"
       IN  IF handler = "CommitFetcher"
           THEN MessageCommit(message)
                  = IF last_call.exc.type = "RepositoryError"
                    THEN Some(commit_short) ELSE None
           ELSE /\ MessageCommit(message) = Some(commit_short)
                /\ \A other \in ClassifierInputs :
                      (Category(other) = Category(last_call.exc))
                      <=> (get_user_message(handler, other,
                               state.repo_identifier, state.commit_sha)
                             = message)

\* The synthesis classifier named a 7-character commit identifier whole.
W_C27_ShortIdentifierNamed ==
    /\ last_call.kind = "raise"
    /\ last_call.exc.type = "LLMError"
    /\ state.commit_sha.len = 7
    /\ Len(state.errors) = 1
    /\ state.errors[1][1] = "ContentSynthesizer"
    /\ state.errors[1][3].len = 7

\* C28: the validator appends exactly one diagnostic for each invalid
\* identity field (repository identifier, commit SHA), none when both are
\* valid, and records the input_validation timestamp if and only if both are
\* valid.
C28_OneDiagnosticPerInvalidField ==
    [][ (pc = "input_validator" /\ last_node' = "input_validator")
        => LET repo_valid == validate_repository(state.repo_identifier).valid
               sha_valid == validate_commit_sha(state.commit_sha).valid
               added == SubSeq(state'.errors, Len(state.errors) + 1,
                               Len(state'.errors))
           IN  /\ SubSeq(state'.errors, 1, Len(state.errors)) = state.errors
               /\ Len(added) = (IF repo_valid THEN 0 ELSE 1)
                                 + (IF sha_valid THEN 0 ELSE 1)
               /\ { entry[2] : entry \in { added[i] : i \in 1..Len(added) } }
                    = (IF repo_valid THEN {} ELSE {"repository"})
                        \cup (IF sha_valid THEN {} ELSE {"commit_sha"})
               /\ (<<"input_validation">> \in DOMAIN state'.step_timestamps)
                    <=> (repo_valid /\ sha_valid) ]_vars

\* The validator returned after finding both identity fields invalid: two
\* diagnostics, no timestamp.
W_C28_BothFieldsInvalid ==
    /\ last_node = "input_validator"
    /\ Len(state.errors) = 2
    /\ state.errors[1][2] = "repository"
    /\ state.errors[2][2] = "commit_sha"
    /\ <<"input_validation">> \notin DOMAIN state.step_timestamps

\* C29: when input validation fails (the validator has returned without
\* recording the input_validation timestamp) the run ends there: neither the
\* fetcher nor any later node executes.
C29_ValidationFailureTerminates ==
    (last_node # "none"
       /\ <<"input_validation">> \notin DOMAIN state.step_timestamps)
    => /\ last_node = "input_validator"
       /\ (\A step \in DOMAIN state.step_timestamps :
              step[1] # "commit_fetching")

\* C30: whenever user_feedback is not null, user_satisfied is false (never
\* unset, never true).
C30_FeedbackImpliesDissatisfied ==
    state.user_feedback # None => state.user_satisfied = Some(FALSE)

\* The reviewer declined the draft and gave feedback, and the refinement pass
\* that followed failed, so the feedback is still stored.
W_C30_FeedbackStillStored ==
    /\ last_node = "content_synthesizer"
    /\ last_call.kind = "raise"
    /\ state.user_feedback = Some(<<"f", "b">>)
    /\ state.user_satisfied = Some(FALSE)

\* C31: current_step never moves from a later stage of the graph order to an
\* earlier one (a synthesis pass with a higher number is later), and when it
\* changes, the step that changed it recorded the timestamp of the new
\* label.
C31_LabelOnlyAdvances ==
    [][ LET Rank(label) ==
                CASE label[1] = "input_validation"    -> 0
                  [] label[1] = "commit_fetching"     -> 1
                  [] label[1] = "commit_analysis"     -> 2
                  [] label[1] = "content_synthesis"   -> 2 + label[2]
                  [] label[1] = "publishing_decision" -> 1000
        IN  /\ Rank(state'.current_step) >= Rank(state.current_step)
            /\ (state'.current_step # state.current_step
                  => /\ Rank(state'.current_step) > Rank(state.current_step)
                     /\ state'.current_step \in DOMAIN state'.step_timestamps
                     /\ state'.step_timestamps[state'.current_step] = now
                     /\ now' = now + 1) ]_vars

\* A second synthesis pass moved the label on from the first pass's label,
\* and a sink has run after the publishing decision without moving it.
W_C31_LabelAfterSecondPass ==
    /\ pc = END
    /\ published # <<>>
    /\ state.current_step = <<"publishing_decision">>
    /\ <<"content_synthesis", 1>> \in DOMAIN state.step_timestamps
    /\ <<"content_synthesis", 3>> \in DOMAIN state.step_timestamps

\* C33: a call of a sink node always returns.  Either it records a published
\* location and leaves the errors list alone, which needs a document, or it
\* records no location and returns the previous errors followed by exactly
\* one diagnostic of its own; without a document it is the second, with the
\* no-document diagnostic.
C33_SinkFailureReturnsOneDiagnostic ==
    [][ (last_node = "publishing_decision" /\ last_node' # last_node)
        => LET SinkName ==
                   CASE last_node' = "publish_to_ghost"  -> "PublishToGhost"
                     [] last_node' = "publish_to_notion" -> "PublishToNotion"
                     [] last_node' = "save_local_draft"  -> "SaveLocalDraft"
               before == Len(state.errors)
           IN  IF published' # published
               THEN /\ state'.errors = state.errors
                    /\ state.blog_post # None
               ELSE /\ Len(state'.errors) = before + 1
                    /\ SubSeq(state'.errors, 1, before) = state.errors
                    /\ state'.errors[before + 1][1] = SinkName
                    /\ (state.blog_post = None
                          <=> state'.errors[before + 1][2] = "no_blog_post") ]_vars

\* The local sink was called with a document, the write failed, and the run's
\* earlier diagnostics are followed by the sink's one; no location is
\* recorded.
W_C33_LocalWriteFailed ==
    /\ last_node = "save_local_draft"
    /\ state.blog_post # None
    /\ published = <<>>
    /\ Len(state.errors) >= 2
    /\ state.errors[Len(state.errors)] = <<"SaveLocalDraft", "file_system">>

C35_TimestampsCountPasses ==
    /\ Cardinality({ step \in DOMAIN state.step_timestamps :
                        step[1] = "content_synthesis" }) = synth_runs
    /\ (~can_iterate(state) <=> synth_runs >= state.max_iterations)

\* The synthesizer has executed max_iterations times, one execution having
\* failed, and can_iterate() has turned false.
W_C35_IterationsExhausted ==
    /\ synth_runs = state.max_iterations
    /\ ~can_iterate(state)
    /\ \E i \in 1..Len(state.errors) : state.errors[i][1] = "ContentSynthesizer"
    /\ { <<"content_synthesis", 1>>, <<"content_synthesis", 3>>,
         <<"content_synthesis", 4>> } \subseteq DOMAIN state.step_timestamps

\* C36: synthesis_iteration_count starts at 0 and every step changes it by
\* exactly this much: plus one when the synthesizer's model call succeeded,
\* plus one when the human-refinement node returns from a review of a
\* document, nothing otherwise (other nodes, failed or skipped synthesis
\* passes, a review without a document, sink calls).  So it always equals the
\* successful synthesis passes plus the reviews that had a document.
C36_CounterCountsPassesAndReviews ==
    /\ state.synthesis_iteration_count = 0
    /\ [][ LET synthesized == /\ synth_runs' = synth_runs + 1
                              /\ last_call'.kind = "ok"
               reviewed == /\ human_runs' = human_runs + 1
                           /\ state.blog_post # None
           IN  state'.synthesis_iteration_count
                 = state.synthesis_iteration_count
                     + (IF synthesized \/ reviewed THEN 1 ELSE 0) ]_vars

\* A run with two successful and one failed synthesis pass and three reviews
\* has ended with the counter at five.
W_C36_FiveCounted ==
    /\ pc = END
    /\ synth_runs = 3
    /\ human_runs = 3
    /\ state.synthesis_iteration_count = 5
    /\ \E i \in 1..Len(state.errors) : state.errors[i][1] = "ContentSynthesizer"

\* C37: a synthesis pass that runs in refinement mode and whose model call
\* fails changes three fields of the state only: errors gains exactly one
\* entry, step_timestamps gains the key of this pass, and current_step is set
\* to that key.  The previous document, the pending feedback, the satisfaction
\* flag, synthesis_iteration_count and every other field stay as they were.
C37_FailedRefinementFrame ==
    [][ ( /\ synth_runs' = synth_runs + 1
          /\ RefinementMode(state)
          /\ last_call'.kind = "raise" )
        => LET key == <<"content_synthesis",
                        state.synthesis_iteration_count + 1>>
           IN  /\ \A f \in DOMAIN state
                         \ {"errors", "step_timestamps", "current_step"} :
                      state'[f] = state[f]
               /\ Len(state'.errors) = Len(state.errors) + 1
               /\ SubSeq(state'.errors, 1, Len(state.errors)) = state.errors
               /\ state'.errors[Len(state'.errors)][1] = "ContentSynthesizer"
               /\ DOMAIN state'.step_timestamps
                    = DOMAIN state.step_timestamps \cup {key}
               /\ \A k \in DOMAIN state.step_timestamps \ {key} :
                      state'.step_timestamps[k] = state.step_timestamps[k]
               /\ state'.current_step = key ]_vars

\* A refinement pass has just failed: the feedback that asked for it is still
\* pending, the first draft is still the document, and the counter stands at
\* two (one draft, one review).
W_C37_FeedbackStillPending ==
    /\ last_node = "content_synthesizer"
    /\ last_call.kind = "raise"
    /\ TruthyStr(state.user_feedback)
    /\ state.user_satisfied = Some(FALSE)
    /\ state.blog_post # None
    /\ state.synthesis_iteration_count = 2
    /\ state.errors[Len(state.errors)][1] = "ContentSynthesizer"

\* C38: once the publishing-decision node has rejected the state for lack of
\* reviewer satisfaction (its diagnostic is in errors), the run is not at the
\* graph's sink node, was not there last, and nothing was published, whatever
\* choice the run was started with.
C38_NoSinkAfterRejection ==
    (\E i \in 1..Len(state.errors) :
        state.errors[i] = <<"PublishingDecisionNode", "no_user_satisfaction">>)
    => /\ pc # "blog_publisher"
       /\ last_node = "publishing_decision"
       /\ pc = END
       /\ published = <<>>

\* A run that was started with the choice "ghost" ended with the decision
\* node's rejection after the reviewer had declined every draft.
W_C38_RejectedWithPreselection ==
    /\ pc = END
    /\ last_node = "publishing_decision"
    /\ state.publishing_decision = Some("ghost")
    /\ state.user_satisfied = Some(FALSE)
    /\ state.blog_post # None
    /\ state.errors[Len(state.errors)]
         = <<"PublishingDecisionNode", "no_user_satisfaction">>

====
